---- MODULE Spec2Model ----
(***************************************************************************)
(* Model of src-tauri/src/lib.rs of NoMoreLaunchers: the launcher          *)
(* detection command, the per-launcher catalog lookup, the Steam import    *)
(* loop and the Steam install-path lookup.                                 *)
(*                                                                         *)
(* Strings that the code only copies or compares as a whole are TLA+       *)
(* strings.  Game names are sequences of characters, because the import    *)
(* loop searches them for a substring.  Option<T> is a sequence of length  *)
(* at most one: None is <<>> and Some(x) is <<x>>.                         *)
(***************************************************************************)
EXTENDS Integers, Sequences, FiniteSets, TLC

VARIABLES
    regKeys,      \* HKLM subkeys that open_subkey can open
    regInstall,   \* Option: the string value InstallPath of the Steam key
    dirs,         \* filesystem paths for which Path::exists is true
    dpc,          \* detect_launchers: "idle", the block to run next, "done"
    launchers,    \* detect_launchers: the local Vec `launchers`
    dres,         \* Option: the Ok value detect_launchers returned
    prev,         \* Option: the previous detection result under this OS state
    nprobes,      \* probe calls made by the command that ran last
    gid,          \* get_games_by_launcher: the argument launcher_id
    gres,         \* Option: the Ok value get_games_by_launcher returned
    submitted,    \* add_games_to_steam: the argument `games`
    idx,          \* add_games_to_steam: games consumed by the for loop
    success,      \* add_games_to_steam: the local `success`
    failed,       \* add_games_to_steam: the local Vec `failed`
    ipc,          \* add_games_to_steam: "idle", "sleep", "done", "cancelled"
    ires,         \* Option: the Ok value add_games_to_steam returned
    sres          \* Option of Option: the value check_steam_path returned

osvars == <<regKeys, regInstall, dirs>>
dvars == <<dpc, launchers, dres, prev>>
gvars == <<gid, gres>>
ivars == <<submitted, idx, success, failed, ipc, ires>>
vars == <<regKeys, regInstall, dirs, dpc, launchers, dres, prev, nprobes,
          gid, gres, submitted, idx, success, failed, ipc, ires, sres>>

None == <<>>
Some(x) == <<x>>

\* Result<T, String>
Ok(x) == [tag |-> "Ok", value |-> x]
Err(msg) == [tag |-> "Err", value |-> msg]

----
(* Game names, as character sequences *)

Fortnite == <<"F","o","r","t","n","i","t","e">>
GrandTheftAutoV == <<"G","r","a","n","d"," ","T","h","e","f","t"," ","A","u","t","o"," ","V">>
AssassinsCreedValhalla == <<"A","s","s","a","s","s","i","n","'","s"," ","C","r","e","e","d"," ","V","a","l","h","a","l","l","a">>
ApexLegends == <<"A","p","e","x"," ","L","e","g","e","n","d","s">>
TheWitcher3WildHunt == <<"T","h","e"," ","W","i","t","c","h","e","r"," ","3",":"," ","W","i","l","d"," ","H","u","n","t">>
DiabloIV == <<"D","i","a","b","l","o"," ","I","V">>

----
(* Probes *)

check_registry_key(keys, key_path) == key_path \in keys

check_path(paths, path) == path \in paths

\* The number of probe calls the expression a || b || c evaluates.
ProbeCalls(a, b) == IF a THEN 1 ELSE IF b THEN 2 ELSE 3

----
(* Catalog providers *)

get_epic_games ==
    << [id |-> "fortnite", name |-> Fortnite,
        executable |-> "FortniteClient-Win64-Shipping.exe",
        install_path |-> "C:\\Program Files\\Epic Games\\Fortnite",
        launcher_id |-> "epic", icon |-> None],
       [id |-> "gta5-epic", name |-> GrandTheftAutoV,
        executable |-> "GTA5.exe",
        install_path |-> "C:\\Program Files\\Epic Games\\GTAV",
        launcher_id |-> "epic", icon |-> None] >>

get_ubisoft_games ==
    << [id |-> "ac-valhalla", name |-> AssassinsCreedValhalla,
        executable |-> "ACValhalla.exe",
        install_path |-> "C:\\Program Files\\Ubisoft\\Assassins Creed Valhalla",
        launcher_id |-> "ubisoft", icon |-> None] >>

get_ea_games ==
    << [id |-> "apex", name |-> ApexLegends,
        executable |-> "r5apex.exe",
        install_path |-> "C:\\Program Files\\EA Games\\Apex",
        launcher_id |-> "ea", icon |-> None] >>

get_gog_games ==
    << [id |-> "witcher3-gog", name |-> TheWitcher3WildHunt,
        executable |-> "witcher3.exe",
        install_path |-> "C:\\GOG Games\\The Witcher 3 Wild Hunt",
        launcher_id |-> "gog", icon |-> None] >>

get_battlenet_games ==
    << [id |-> "diablo4", name |-> DiabloIV,
        executable |-> "Diablo IV.exe",
        install_path |-> "C:\\Program Files (x86)\\Diablo IV",
        launcher_id |-> "battlenet", icon |-> None] >>

----
(* detect_launchers: the five blocks, in the order of the source *)

epic_detected(keys, paths) ==
    \/ check_registry_key(keys, "SOFTWARE\\WOW6432Node\\Epic Games\\EpicGamesLauncher")
    \/ check_path(paths, "C:\\Program Files (x86)\\Epic Games\\Launcher")
    \/ check_path(paths, "C:\\Program Files\\Epic Games\\Launcher")

epic_probes(keys, paths) ==
    ProbeCalls(check_registry_key(keys, "SOFTWARE\\WOW6432Node\\Epic Games\\EpicGamesLauncher"),
               check_path(paths, "C:\\Program Files (x86)\\Epic Games\\Launcher"))

\* epic_info with the install path filled in whether or not Epic is detected.
epic_info_path_always(keys, paths) ==
    [id |-> "epic", name |-> "Epic Games", icon |-> "U+1F3AE",
     detected |-> epic_detected(keys, paths),
     games |-> IF epic_detected(keys, paths) THEN get_epic_games ELSE <<>>,
     install_path |-> Some("C:\\Program Files (x86)\\Epic Games\\Launcher")]

epic_info(keys, paths) ==
    [id |-> "epic", name |-> "Epic Games", icon |-> "U+1F3AE",
     detected |-> epic_detected(keys, paths),
     games |-> IF epic_detected(keys, paths) THEN get_epic_games ELSE <<>>,
     install_path |-> IF epic_detected(keys, paths)
                      THEN Some("C:\\Program Files (x86)\\Epic Games\\Launcher")
                      ELSE None]

ubisoft_detected(keys, paths) ==
    \/ check_registry_key(keys, "SOFTWARE\\WOW6432Node\\Ubisoft\\Launcher")
    \/ check_path(paths, "C:\\Program Files (x86)\\Ubisoft\\Ubisoft Game Launcher")
    \/ check_path(paths, "C:\\Program Files\\Ubisoft\\Ubisoft Game Launcher")

ubisoft_probes(keys, paths) ==
    ProbeCalls(check_registry_key(keys, "SOFTWARE\\WOW6432Node\\Ubisoft\\Launcher"),
               check_path(paths, "C:\\Program Files (x86)\\Ubisoft\\Ubisoft Game Launcher"))

ubisoft_info(keys, paths) ==
    [id |-> "ubisoft", name |-> "Ubisoft Connect", icon |-> "U+1F3AF",
     detected |-> ubisoft_detected(keys, paths),
     games |-> IF ubisoft_detected(keys, paths) THEN get_ubisoft_games ELSE <<>>,
     install_path |-> IF ubisoft_detected(keys, paths)
                      THEN Some("C:\\Program Files (x86)\\Ubisoft\\Ubisoft Game Launcher")
                      ELSE None]

ea_detected(keys, paths) ==
    \/ check_registry_key(keys, "SOFTWARE\\WOW6432Node\\Electronic Arts\\EA Desktop")
    \/ check_path(paths, "C:\\Program Files\\Electronic Arts\\EA Desktop")
    \/ check_path(paths, "C:\\Program Files (x86)\\Electronic Arts\\EA Desktop")

ea_probes(keys, paths) ==
    ProbeCalls(check_registry_key(keys, "SOFTWARE\\WOW6432Node\\Electronic Arts\\EA Desktop"),
               check_path(paths, "C:\\Program Files\\Electronic Arts\\EA Desktop"))

\* ea_info with the install path of the other blocks' pattern (x86 first).
ea_info_x86(keys, paths) ==
    [id |-> "ea", name |-> "EA App", icon |-> "U+26A1",
     detected |-> ea_detected(keys, paths),
     games |-> IF ea_detected(keys, paths) THEN get_ea_games ELSE <<>>,
     install_path |-> IF ea_detected(keys, paths)
                      THEN Some("C:\\Program Files (x86)\\Electronic Arts\\EA Desktop")
                      ELSE None]

ea_info(keys, paths) ==
    [id |-> "ea", name |-> "EA App", icon |-> "U+26A1",
     detected |-> ea_detected(keys, paths),
     games |-> IF ea_detected(keys, paths) THEN get_ea_games ELSE <<>>,
     install_path |-> IF ea_detected(keys, paths)
                      THEN Some("C:\\Program Files\\Electronic Arts\\EA Desktop")
                      ELSE None]

gog_detected(keys, paths) ==
    \/ check_registry_key(keys, "SOFTWARE\\WOW6432Node\\GOG.com\\GalaxyClient")
    \/ check_path(paths, "C:\\Program Files (x86)\\GOG Galaxy")
    \/ check_path(paths, "C:\\Program Files\\GOG Galaxy")

gog_probes(keys, paths) ==
    ProbeCalls(check_registry_key(keys, "SOFTWARE\\WOW6432Node\\GOG.com\\GalaxyClient"),
               check_path(paths, "C:\\Program Files (x86)\\GOG Galaxy"))

gog_info(keys, paths) ==
    [id |-> "gog", name |-> "GOG Galaxy", icon |-> "U+1F31F",
     detected |-> gog_detected(keys, paths),
     games |-> IF gog_detected(keys, paths) THEN get_gog_games ELSE <<>>,
     install_path |-> IF gog_detected(keys, paths)
                      THEN Some("C:\\Program Files (x86)\\GOG Galaxy")
                      ELSE None]

battlenet_detected(keys, paths) ==
    \/ check_registry_key(keys, "SOFTWARE\\WOW6432Node\\Blizzard Entertainment\\Battle.net")
    \/ check_path(paths, "C:\\Program Files (x86)\\Battle.net")
    \/ check_path(paths, "C:\\Program Files\\Battle.net")

battlenet_probes(keys, paths) ==
    ProbeCalls(check_registry_key(keys, "SOFTWARE\\WOW6432Node\\Blizzard Entertainment\\Battle.net"),
               check_path(paths, "C:\\Program Files (x86)\\Battle.net"))

battlenet_info(keys, paths) ==
    [id |-> "battlenet", name |-> "Battle.net", icon |-> "U+2694 U+FE0F",
     detected |-> battlenet_detected(keys, paths),
     games |-> IF battlenet_detected(keys, paths) THEN get_battlenet_games ELSE <<>>,
     install_path |-> IF battlenet_detected(keys, paths)
                      THEN Some("C:\\Program Files (x86)\\Battle.net")
                      ELSE None]

----
(* The operating system: installs and removals between commands *)

LauncherKeys ==
    { "SOFTWARE\\WOW6432Node\\Epic Games\\EpicGamesLauncher",
      "SOFTWARE\\WOW6432Node\\Ubisoft\\Launcher",
      "SOFTWARE\\WOW6432Node\\Electronic Arts\\EA Desktop",
      "SOFTWARE\\WOW6432Node\\GOG.com\\GalaxyClient",
      "SOFTWARE\\WOW6432Node\\Blizzard Entertainment\\Battle.net" }

LauncherDirs ==
    { "C:\\Program Files (x86)\\Epic Games\\Launcher",
      "C:\\Program Files\\Epic Games\\Launcher",
      "C:\\Program Files (x86)\\Ubisoft\\Ubisoft Game Launcher",
      "C:\\Program Files\\Ubisoft\\Ubisoft Game Launcher",
      "C:\\Program Files\\Electronic Arts\\EA Desktop",
      "C:\\Program Files (x86)\\Electronic Arts\\EA Desktop",
      "C:\\Program Files (x86)\\GOG Galaxy",
      "C:\\Program Files\\GOG Galaxy",
      "C:\\Program Files (x86)\\Battle.net",
      "C:\\Program Files\\Battle.net" }

Toggle(set, x) == IF x \in set THEN set \ {x} ELSE set \cup {x}

\* A launcher's registry key appears or disappears while no detection runs
\* and no detection result is held.
OsKeyChange ==
    /\ dpc = "idle" /\ gres = None /\ sres = None
    /\ \E k \in LauncherKeys : regKeys' = Toggle(regKeys, k)
    /\ prev' = None
    /\ UNCHANGED <<regInstall, dirs, dpc, launchers, dres, nprobes>>
    /\ UNCHANGED gvars /\ UNCHANGED ivars /\ UNCHANGED sres

\* A launcher's directory appears or disappears, likewise.
OsDirChange ==
    /\ dpc = "idle" /\ gres = None /\ sres = None
    /\ \E d \in LauncherDirs : dirs' = Toggle(dirs, d)
    /\ prev' = None
    /\ UNCHANGED <<regKeys, regInstall, dpc, launchers, dres, nprobes>>
    /\ UNCHANGED gvars /\ UNCHANGED ivars /\ UNCHANGED sres

----
(* detect_launchers as a state machine: the call, one step per block (each
   ends at the .await of its catalog provider), the return with the last *)

DetectCall ==
    /\ dpc = "idle" /\ gres = None
    /\ dpc' = "epic"
    /\ launchers' = <<>>
    /\ nprobes' = 0
    /\ UNCHANGED <<dres, prev>>
    /\ UNCHANGED osvars /\ UNCHANGED gvars /\ UNCHANGED ivars /\ UNCHANGED sres

\* DetectEpic with a probe that creates the directory it looks for.
DetectEpic_creates ==
    /\ dpc = "epic"
    /\ launchers' = Append(launchers, epic_info(regKeys, dirs))
    /\ nprobes' = nprobes + epic_probes(regKeys, dirs)
    /\ dirs' = dirs \cup {"C:\\Program Files (x86)\\Epic Games\\Launcher"}
    /\ dpc' = "ubisoft"
    /\ UNCHANGED <<dres, prev, regKeys, regInstall>>
    /\ UNCHANGED gvars /\ UNCHANGED ivars /\ UNCHANGED sres

DetectEpic ==
    /\ dpc = "epic"
    /\ launchers' = Append(launchers, epic_info(regKeys, dirs))
    /\ nprobes' = nprobes + epic_probes(regKeys, dirs)
    /\ dpc' = "ubisoft"
    /\ UNCHANGED <<dres, prev>>
    /\ UNCHANGED osvars /\ UNCHANGED gvars /\ UNCHANGED ivars /\ UNCHANGED sres

\* DetectUbisoft pushing its entry only when the launcher is detected.
DetectUbisoft_only_detected ==
    /\ dpc = "ubisoft"
    /\ launchers' = IF ubisoft_detected(regKeys, dirs)
                    THEN Append(launchers, ubisoft_info(regKeys, dirs))
                    ELSE launchers
    /\ nprobes' = nprobes + ubisoft_probes(regKeys, dirs)
    /\ dpc' = "ea"
    /\ UNCHANGED <<dres, prev>>
    /\ UNCHANGED osvars /\ UNCHANGED gvars /\ UNCHANGED ivars /\ UNCHANGED sres

DetectUbisoft ==
    /\ dpc = "ubisoft"
    /\ launchers' = Append(launchers, ubisoft_info(regKeys, dirs))
    /\ nprobes' = nprobes + ubisoft_probes(regKeys, dirs)
    /\ dpc' = "ea"
    /\ UNCHANGED <<dres, prev>>
    /\ UNCHANGED osvars /\ UNCHANGED gvars /\ UNCHANGED ivars /\ UNCHANGED sres

DetectEa ==
    /\ dpc = "ea"
    /\ launchers' = Append(launchers, ea_info(regKeys, dirs))
    /\ nprobes' = nprobes + ea_probes(regKeys, dirs)
    /\ dpc' = "gog"
    /\ UNCHANGED <<dres, prev>>
    /\ UNCHANGED osvars /\ UNCHANGED gvars /\ UNCHANGED ivars /\ UNCHANGED sres

DetectGog ==
    /\ dpc = "gog"
    /\ launchers' = Append(launchers, gog_info(regKeys, dirs))
    /\ nprobes' = nprobes + gog_probes(regKeys, dirs)
    /\ dpc' = "battlenet"
    /\ UNCHANGED <<dres, prev>>
    /\ UNCHANGED osvars /\ UNCHANGED gvars /\ UNCHANGED ivars /\ UNCHANGED sres

\* The last block, and `Ok(launchers)`.
DetectBattlenet ==
    /\ dpc = "battlenet"
    /\ launchers' = Append(launchers, battlenet_info(regKeys, dirs))
    /\ nprobes' = nprobes + battlenet_probes(regKeys, dirs)
    /\ dres' = Some(Ok(launchers'))
    /\ dpc' = "done"
    /\ UNCHANGED prev
    /\ UNCHANGED osvars /\ UNCHANGED gvars /\ UNCHANGED ivars /\ UNCHANGED sres

\* The front end takes the response; the model keeps it as the result to
\* compare the next detection with.
DetectTaken ==
    /\ dpc = "done"
    /\ prev' = dres
    /\ dres' = None
    /\ launchers' = <<>>
    /\ dpc' = "idle"
    /\ UNCHANGED nprobes
    /\ UNCHANGED osvars /\ UNCHANGED gvars /\ UNCHANGED ivars /\ UNCHANGED sres

----
(* get_games_by_launcher: no .await in it suspends, so the call is one step *)

\* get_games_by_launcher rejecting an id it does not know.
get_games_by_launcher_strict(launcher_id) ==
    CASE launcher_id = "epic" -> Ok(get_epic_games)
      [] launcher_id = "ubisoft" -> Ok(get_ubisoft_games)
      [] launcher_id = "ea" -> Ok(get_ea_games)
      [] launcher_id = "gog" -> Ok(get_gog_games)
      [] launcher_id = "battlenet" -> Ok(get_battlenet_games)
      [] OTHER -> Err("unknown launcher")

get_games_by_launcher(launcher_id) ==
    Ok(CASE launcher_id = "epic" -> get_epic_games
         [] launcher_id = "ubisoft" -> get_ubisoft_games
         [] launcher_id = "ea" -> get_ea_games
         [] launcher_id = "gog" -> get_gog_games
         [] launcher_id = "battlenet" -> get_battlenet_games
         [] OTHER -> <<>>)

\* The ids a front end may send: the five known ones, and unknown ones.
LauncherIdInputs ==
    {"epic", "ubisoft", "ea", "gog", "battlenet", "steam", "Epic", ""}

GamesCall ==
    /\ dpc = "idle" /\ gres = None /\ sres = None
    /\ \E launcher_id \in LauncherIdInputs :
         /\ gid' = launcher_id
         /\ gres' = Some(get_games_by_launcher(launcher_id))
    /\ nprobes' = 0
    /\ UNCHANGED osvars /\ UNCHANGED dvars /\ UNCHANGED ivars /\ UNCHANGED sres

GamesTaken ==
    /\ gres # None
    /\ gres' = None
    /\ gid' = ""
    /\ UNCHANGED nprobes
    /\ UNCHANGED osvars /\ UNCHANGED dvars /\ UNCHANGED ivars /\ UNCHANGED sres

----
(* check_steam_path / get_steam_path *)

SteamKey == "SOFTWARE\\WOW6432Node\\Valve\\Steam"

common_paths == << "C:\\Program Files (x86)\\Steam", "C:\\Program Files\\Steam" >>

\* The first path of `ps` that exists, as the `for` loop over common_paths
\* finds it.
RECURSIVE FirstExisting(_, _)
FirstExisting(ps, paths) ==
    IF ps = <<>> THEN None
    ELSE IF Head(ps) \in paths THEN Some(Head(ps))
    ELSE FirstExisting(Tail(ps), paths)

\* get_steam_path looking at the file system before the registry.
get_steam_path_fs_first(keys, install, paths) ==
    IF FirstExisting(common_paths, paths) # None
    THEN FirstExisting(common_paths, paths)
    ELSE IF SteamKey \in keys /\ install # None THEN Some(install[1]) ELSE None

get_steam_path(keys, install, paths) ==
    IF SteamKey \in keys /\ install # None
    THEN Some(install[1])
    ELSE FirstExisting(common_paths, paths)

check_steam_path(keys, install, paths) == get_steam_path(keys, install, paths)

\* Values the registry may hold under InstallPath; none need exist on disk.
InstallPathValues ==
    { "C:\\Program Files (x86)\\Steam", "C:\\Program Files\\Steam", "D:\\Games\\Steam" }

SteamDirs == { common_paths[i] : i \in 1..Len(common_paths) }

SteamCall ==
    /\ sres = None /\ gres = None
    /\ sres' = Some(check_steam_path(regKeys, regInstall, dirs))
    /\ UNCHANGED nprobes
    /\ UNCHANGED osvars /\ UNCHANGED dvars /\ UNCHANGED gvars /\ UNCHANGED ivars

SteamTaken ==
    /\ sres # None
    /\ sres' = None
    /\ UNCHANGED nprobes
    /\ UNCHANGED osvars /\ UNCHANGED dvars /\ UNCHANGED gvars /\ UNCHANGED ivars

\* Steam is installed, removed or moved while no response is held.
SteamKeyChange ==
    /\ sres = None /\ gres = None
    /\ regKeys' = Toggle(regKeys, SteamKey)
    /\ UNCHANGED <<regInstall, dirs, nprobes, sres>>
    /\ UNCHANGED dvars /\ UNCHANGED gvars /\ UNCHANGED ivars

SteamValueChange ==
    /\ sres = None /\ gres = None
    /\ \E v \in {None} \cup { Some(x) : x \in InstallPathValues } :
         /\ v # regInstall
         /\ regInstall' = v
    /\ UNCHANGED <<regKeys, dirs, nprobes, sres>>
    /\ UNCHANGED dvars /\ UNCHANGED gvars /\ UNCHANGED ivars

SteamDirChange ==
    /\ sres = None /\ gres = None
    /\ \E d \in SteamDirs : dirs' = Toggle(dirs, d)
    /\ UNCHANGED <<regKeys, regInstall, nprobes, sres>>
    /\ UNCHANGED dvars /\ UNCHANGED gvars /\ UNCHANGED ivars

----
(* add_games_to_steam *)

Error == <<"E","r","r","o","r">>

\* str::starts_with in the place of str::contains.
starts_with(s, pat) ==
    Len(pat) <= Len(s) /\ SubSeq(s, 1, Len(pat)) = pat

\* str::contains: whether `pat` occurs in `s` as a contiguous run.
RECURSIVE contains(_, _)
contains(s, pat) ==
    IF Len(s) < Len(pat) THEN FALSE
    ELSE IF SubSeq(s, 1, Len(pat)) = pat THEN TRUE
    ELSE contains(Tail(s), pat)

\* classify with `success += 1` outside the else branch.
classify_counts_all(game, succ, fl) ==
    IF contains(game.name, Error)
    THEN [success |-> succ + 1, failed |-> Append(fl, game.name)]
    ELSE [success |-> succ + 1, failed |-> fl]

\* The body of the for loop after the sleep: the new (success, failed).
classify(game, succ, fl) ==
    IF contains(game.name, Error)
    THEN [success |-> succ, failed |-> Append(fl, game.name)]
    ELSE [success |-> succ + 1, failed |-> fl]

GameWithError == <<"G","a","m","e","W","i","t","h","E","r","r","o","r">>
LowerError == <<"e","r","r","o","r">>
ErrError == <<"E","r","r","E","r","r","o","r">>

SelectedGame(id, name) ==
    [id |-> id, name |-> name, executable |-> "game.exe",
     install_path |-> "C:\\Games", launcher_id |-> "epic", icon |-> None]

\* The games a front end may submit: catalog games and games whose names
\* hold, or nearly hold, the marker.
GamePool ==
    { get_epic_games[1], get_battlenet_games[1],
      SelectedGame("g1", GameWithError), SelectedGame("g2", Error),
      SelectedGame("g3", LowerError), SelectedGame("g4", ErrError) }

MaxGames == 3

GameLists == UNION { [1..n -> GamePool] : n \in 0..MaxGames }

\* The call up to its first suspension: an empty list returns at once.
ImportCall ==
    /\ ipc = "idle"
    /\ \E games \in GameLists :
         /\ submitted' = games
         /\ idx' = 0 /\ success' = 0 /\ failed' = <<>>
         /\ IF games = <<>>
            THEN /\ ipc' = "done"
                 /\ ires' = Some(Ok([success |-> 0, failed |-> <<>>]))
            ELSE /\ ipc' = "sleep"
                 /\ ires' = None
    /\ UNCHANGED nprobes
    /\ UNCHANGED osvars /\ UNCHANGED dvars /\ UNCHANGED gvars /\ UNCHANGED sres

\* ImportWake leaving the loop at the first failed game.
ImportWake_break ==
    /\ ipc = "sleep"
    /\ LET r == classify(submitted[idx + 1], success, failed) IN
         /\ success' = r.success
         /\ failed' = r.failed
         /\ idx' = idx + 1
         /\ IF idx + 1 = Len(submitted) \/ r.failed # failed
            THEN /\ ipc' = "done"
                 /\ ires' = Some(Ok([success |-> r.success, failed |-> r.failed]))
            ELSE /\ ipc' = "sleep"
                 /\ ires' = None
    /\ UNCHANGED <<submitted, nprobes>>
    /\ UNCHANGED osvars /\ UNCHANGED dvars /\ UNCHANGED gvars /\ UNCHANGED sres

\* The sleep completes: the game is classified, and the loop either sleeps
\* for the next game or ends and the call returns.
ImportWake ==
    /\ ipc = "sleep"
    /\ LET r == classify(submitted[idx + 1], success, failed) IN
         /\ success' = r.success
         /\ failed' = r.failed
         /\ idx' = idx + 1
         /\ IF idx + 1 = Len(submitted)
            THEN /\ ipc' = "done"
                 /\ ires' = Some(Ok([success |-> r.success, failed |-> r.failed]))
            ELSE /\ ipc' = "sleep"
                 /\ ires' = None
    /\ UNCHANGED <<submitted, nprobes>>
    /\ UNCHANGED osvars /\ UNCHANGED dvars /\ UNCHANGED gvars /\ UNCHANGED sres

\* ImportCancel returning what the loop has counted so far.
ImportCancel_partial ==
    /\ ipc = "sleep"
    /\ ipc' = "cancelled"
    /\ ires' = Some(Ok([success |-> success, failed |-> failed]))
    /\ UNCHANGED <<submitted, idx, success, failed, nprobes>>
    /\ UNCHANGED osvars /\ UNCHANGED dvars /\ UNCHANGED gvars /\ UNCHANGED sres

\* The caller drops the future while it is suspended in the sleep: the body
\* never runs again and nothing is returned.
ImportCancel ==
    /\ ipc = "sleep"
    /\ ipc' = "cancelled"
    /\ ires' = None
    /\ UNCHANGED <<submitted, idx, success, failed, nprobes>>
    /\ UNCHANGED osvars /\ UNCHANGED dvars /\ UNCHANGED gvars /\ UNCHANGED sres

ImportTaken ==
    /\ ipc \in {"done", "cancelled"}
    /\ ipc' = "idle"
    /\ submitted' = <<>> /\ idx' = 0 /\ success' = 0 /\ failed' = <<>>
    /\ ires' = None
    /\ UNCHANGED nprobes
    /\ UNCHANGED osvars /\ UNCHANGED dvars /\ UNCHANGED gvars /\ UNCHANGED sres

----
(* Specifications *)

InitRest ==
    /\ dpc = "idle" /\ launchers = <<>> /\ dres = None /\ prev = None
    /\ nprobes = 0
    /\ gid = "" /\ gres = None
    /\ submitted = <<>> /\ idx = 0 /\ success = 0 /\ failed = <<>>
    /\ ipc = "idle" /\ ires = None
    /\ sres = None

\* Detection and catalog lookup, on every combination of the launchers'
\* keys and directories.
InitDetect ==
    /\ regKeys \in SUBSET LauncherKeys
    /\ dirs \in SUBSET LauncherDirs
    /\ regInstall = None
    /\ InitRest

NextDetect ==
    \/ OsKeyChange
    \/ OsDirChange
    \/ DetectCall
    \/ DetectEpic
    \/ DetectUbisoft
    \/ DetectEa
    \/ DetectGog
    \/ DetectBattlenet
    \/ DetectTaken
    \/ GamesCall
    \/ GamesTaken

SpecDetect == InitDetect /\ [][NextDetect]_vars

\* The Steam path lookup, on every combination of the Steam key, its value
\* and the two fallback directories.
InitSteam ==
    /\ regKeys \in SUBSET {SteamKey}
    /\ regInstall \in {None} \cup { Some(x) : x \in InstallPathValues }
    /\ dirs \in SUBSET SteamDirs
    /\ InitRest

NextSteam ==
    \/ SteamKeyChange
    \/ SteamValueChange
    \/ SteamDirChange
    \/ SteamCall
    \/ SteamTaken
    \/ GamesCall
    \/ GamesTaken

SpecSteam == InitSteam /\ [][NextSteam]_vars

\* The import, on a machine with nothing installed.
InitImport ==
    /\ regKeys = {} /\ regInstall = None /\ dirs = {}
    /\ InitRest

NextImport ==
    \/ ImportCall
    \/ ImportWake
    \/ ImportCancel
    \/ ImportTaken

SpecImport == InitImport /\ [][NextImport]_vars

----
(* The properties of the specification, as formulas over the model *)

\* The failure marker of the specification, stated without the search.
HasMarker(name) ==
    \E i \in 1..Len(name) : i + 4 <= Len(name) /\ SubSeq(name, i, i + 4) = <<"E","r","r","o","r">>

Names(games) == [i \in 1..Len(games) |-> games[i].name]

MarkedNames(games) == SelectSeq(Names(games), HasMarker)

\* C1: a finished import of N games, K of them with a name containing
\* "Error", returns success = N - K and failed = those K names in the order
\* submitted, duplicates kept; the empty list returns 0 and no names.
C1_ImportResult ==
    ipc = "done" =>
        ires = Some(Ok([success |-> Len(submitted) - Len(MarkedNames(submitted)),
                        failed |-> MarkedNames(submitted)]))

C1_Witness ==
    /\ ipc = "done" /\ Len(submitted) = 3
    /\ ires # None
    /\ ires[1].value.success = 1
    /\ Len(ires[1].value.failed) = 2
    /\ ires[1].value.failed[1] # ires[1].value.failed[2]
    /\ ~HasMarker(submitted[2].name)

\* C2: after each processed game success + len(failed) is the number of
\* games processed so far, and in every returned ImportResult it is the
\* number of games submitted.
C2_Accounting ==
    /\ ipc \in {"sleep", "done"} => success + Len(failed) = idx
    /\ ires # None =>
         ires[1].value.success + Len(ires[1].value.failed) = Len(submitted)

C2_Witness ==
    /\ ipc = "sleep" /\ idx = 2
    /\ success = 1 /\ Len(failed) = 1
    /\ Len(submitted) = 3

\* C7: a failing game neither aborts the batch nor becomes an error of the
\* call: while the loop runs, and when it has ended, the games classified
\* are exactly the first idx submitted ones, each in its place; the call
\* returns only when every game has been classified, and returns Ok.
C7_NoAbort ==
    /\ ires # None => ires[1].tag = "Ok"
    /\ ipc = "done" => ires # None /\ idx = Len(submitted)
    /\ ipc = "sleep" => ires = None /\ idx < Len(submitted)
    /\ ipc \in {"sleep", "done"} =>
         failed = MarkedNames(SubSeq(submitted, 1, idx))

C7_Witness ==
    /\ ipc = "done" /\ Len(submitted) = 3
    /\ HasMarker(submitted[1].name)
    /\ ~HasMarker(submitted[2].name)
    /\ HasMarker(submitted[3].name)
    /\ ires[1].value.success = 1

\* C8: a call cancelled at a suspension point delivers no ImportResult; an
\* ImportResult that is delivered accounts for all the submitted games.
C8_CancelAllOrNothing ==
    /\ ipc = "cancelled" => ires = None
    /\ ires # None =>
         /\ ipc = "done"
         /\ ires[1].value.success + Len(ires[1].value.failed) = Len(submitted)
         /\ ires[1].value.failed = MarkedNames(submitted)

C8_Witness ==
    /\ ipc = "cancelled"
    /\ idx = 2 /\ Len(submitted) = 3
    /\ failed # <<>> /\ success = 1
    /\ ires = None

\* The registry order of the specification.
RegistryOrder == <<"epic", "ubisoft", "ea", "gog", "battlenet">>

\* C3: whatever the probes find, detect_launchers returns five entries with
\* the ids epic, ubisoft, ea, gog, battlenet in this order (and builds them
\* in this order).
C3_RegistryOrder ==
    /\ Len(launchers) <= Len(RegistryOrder)
    /\ \A i \in 1..Len(launchers) : launchers[i].id = RegistryOrder[i]
    /\ dres # None =>
         /\ dres[1].tag = "Ok"
         /\ [i \in 1..Len(dres[1].value) |-> dres[1].value[i].id] = RegistryOrder

C3_Witness ==
    /\ dres # None
    /\ ~dres[1].value[1].detected
    /\ dres[1].value[2].detected
    /\ ~dres[1].value[3].detected
    /\ dres[1].value[4].detected
    /\ ~dres[1].value[5].detected

\* C4: in every Launcher built or returned, not detected implies no games
\* and no install path, and detected implies an install path.
LauncherShape(l) ==
    /\ ~l.detected => l.games = <<>> /\ l.install_path = None
    /\ l.detected => l.install_path # None

C4_LauncherShape ==
    /\ \A i \in 1..Len(launchers) : LauncherShape(launchers[i])
    /\ dres # None =>
         \A i \in 1..Len(dres[1].value) : LauncherShape(dres[1].value[i])

C4_Witness ==
    /\ dres # None
    /\ ~dres[1].value[1].detected /\ dres[1].value[1].install_path = None
    /\ dres[1].value[5].detected /\ dres[1].value[5].games # <<>>

KnownIds == { RegistryOrder[i] : i \in 1..Len(RegistryOrder) }

\* C5: get_games_by_launcher returns Ok for every id; for an unknown id the
\* value is empty; for a known id it is that launcher's games (those a
\* detection reports for it when it is detected), obtained without a probe
\* and whether or not the launcher is detected.
C5_GamesFor ==
    gres # None =>
        /\ gres[1].tag = "Ok"
        /\ nprobes = 0
        /\ gid \notin KnownIds => gres[1].value = <<>>
        /\ gid \in KnownIds =>
             /\ gres[1].value # <<>>
             /\ \A i \in 1..Len(gres[1].value) : gres[1].value[i].launcher_id = gid
             /\ prev # None =>
                  \A j \in 1..Len(prev[1].value) :
                      prev[1].value[j].id = gid /\ prev[1].value[j].detected
                          => prev[1].value[j].games = gres[1].value

C5_Witness ==
    /\ gres # None
    /\ gid = "steam"
    /\ gres[1] = Ok(<<>>)
    /\ prev # None

\* C6: the Steam path returned is the registry value InstallPath whenever
\* the key opens and the value reads, whatever directories exist; otherwise
\* the first existing one of Program Files (x86)\Steam and Program
\* Files\Steam; otherwise absent.
C6_SteamPath ==
    sres # None =>
        IF SteamKey \in regKeys /\ regInstall # None
        THEN sres[1] = regInstall
        ELSE IF "C:\\Program Files (x86)\\Steam" \in dirs
        THEN sres[1] = Some("C:\\Program Files (x86)\\Steam")
        ELSE IF "C:\\Program Files\\Steam" \in dirs
        THEN sres[1] = Some("C:\\Program Files\\Steam")
        ELSE sres[1] = None

C6_Witness ==
    /\ sres # None
    /\ SteamKey \in regKeys
    /\ regInstall = Some("D:\\Games\\Steam")
    /\ dirs = {"C:\\Program Files (x86)\\Steam", "C:\\Program Files\\Steam"}
    /\ sres[1] = Some("D:\\Games\\Steam")

\* C9: a detection that follows another with no change of the keys and
\* directories in between returns the same value, and no step of a
\* detection changes the operating system state or the state of the other
\* commands.
C9_Idempotent ==
    /\ [](dpc = "done" /\ prev # None => dres = prev)
    /\ [][dpc' # dpc => UNCHANGED <<regKeys, regInstall, dirs, gid, gres,
                                   submitted, idx, success, failed, ipc, ires, sres>>]_vars

C9_Witness ==
    /\ dpc = "done" /\ prev # None
    /\ dres = prev
    /\ dres[1].value[1].detected
    /\ ~dres[1].value[2].detected

\* The table of the specification: per launcher the registry key and the
\* fallback paths in their order.
Registry ==
    [epic |-> [key |-> "SOFTWARE\\WOW6432Node\\Epic Games\\EpicGamesLauncher",
               first |-> "C:\\Program Files (x86)\\Epic Games\\Launcher",
               second |-> "C:\\Program Files\\Epic Games\\Launcher"],
     ubisoft |-> [key |-> "SOFTWARE\\WOW6432Node\\Ubisoft\\Launcher",
                  first |-> "C:\\Program Files (x86)\\Ubisoft\\Ubisoft Game Launcher",
                  second |-> "C:\\Program Files\\Ubisoft\\Ubisoft Game Launcher"],
     ea |-> [key |-> "SOFTWARE\\WOW6432Node\\Electronic Arts\\EA Desktop",
             first |-> "C:\\Program Files\\Electronic Arts\\EA Desktop",
             second |-> "C:\\Program Files (x86)\\Electronic Arts\\EA Desktop"],
     gog |-> [key |-> "SOFTWARE\\WOW6432Node\\GOG.com\\GalaxyClient",
              first |-> "C:\\Program Files (x86)\\GOG Galaxy",
              second |-> "C:\\Program Files\\GOG Galaxy"],
     battlenet |-> [key |-> "SOFTWARE\\WOW6432Node\\Blizzard Entertainment\\Battle.net",
                    first |-> "C:\\Program Files (x86)\\Battle.net",
                    second |-> "C:\\Program Files\\Battle.net"]]

\* C10: for each launcher returned, detected is the OR of its key probe and
\* its two path probes, and when detected the install path is the
\* launcher's first fallback path, whichever probe matched.
C10_DetectedAndPath ==
    dres # None =>
        \A i \in 1..Len(dres[1].value) :
            LET l == dres[1].value[i]
                r == Registry[l.id]
            IN /\ l.detected = (r.key \in regKeys \/ r.first \in dirs \/ r.second \in dirs)
               /\ l.detected => l.install_path = Some(r.first)

C10_Witness ==
    /\ dres # None
    /\ regKeys = {Registry["epic"].key}
    /\ dirs = {Registry["ea"].second}
    /\ dres[1].value[1].install_path = Some(Registry["epic"].first)
    /\ dres[1].value[3].install_path = Some(Registry["ea"].first)

====
